---------------------------- MODULE Spec2Model ----------------------------
(***************************************************************************)
(* A model of real_estate_dashboard.py: the listing pipeline that main()   *)
(* runs on every script run (fetch, coercion, filters, metrics,            *)
(* neighbourhood aggregation, sort/paginate, export).                      *)
(*                                                                         *)
(* Values.  A Python string is a sequence of one-character strings.  A     *)
(* cell of a DataFrame is a tagged tuple:                                  *)
(*   <<"absent">>   the key is missing from the raw listing (NaN cell)     *)
(*   <<"none">>     JSON null (None)                                       *)
(*   <<"nan">>      NaN produced by a coercion                             *)
(*   <<"str", s>>   a string                                               *)
(*   <<"num", n>>   a number                                               *)
(***************************************************************************)
EXTENDS Integers, Sequences, FiniteSets, TLC

Absent == <<"absent">>
None   == <<"none">>
NaN    == <<"nan">>
Str(s) == <<"str", s>>
Num(n) == <<"num", n>>

IsMissing(c) == c[1] \in {"absent", "none", "nan"}
IsStr(c)     == c[1] = "str"
IsNum(c)     == c[1] = "num"

Range(s) == {s[i] : i \in DOMAIN s}

-----------------------------------------------------------------------------
(* Characters and Python string operations *)

Digits == {"0", "1", "2", "3", "4", "5", "6", "7", "8", "9"}

\* ord(c) of the characters the model uses
Ord(c) ==
  CASE c = " " -> 32 [] c = "$" -> 36 [] c = "+" -> 43 [] c = "," -> 44
    [] c = "0" -> 48 [] c = "1" -> 49 [] c = "2" -> 50 [] c = "3" -> 51
    [] c = "4" -> 52 [] c = "5" -> 53 [] c = "6" -> 54 [] c = "7" -> 55
    [] c = "8" -> 56 [] c = "9" -> 57
    [] c = "a" -> 97 [] c = "b" -> 98 [] c = "c" -> 99 [] c = "d" -> 100
    [] c = "x" -> 120

DigitVal(c) == Ord(c) - 48

\* s < t for Python strings (lexicographic by code point)
RECURSIVE StrLess(_, _)
StrLess(s, t) ==
  IF t = <<>> THEN FALSE
  ELSE IF s = <<>> THEN TRUE
  ELSE IF Head(s) = Head(t) THEN StrLess(Tail(s), Tail(t))
  ELSE Ord(Head(s)) < Ord(Head(t))

\* str.strip(): surrounding whitespace removed
RECURSIVE LStrip(_)
LStrip(s) == IF s # <<>> /\ Head(s) = " " THEN LStrip(Tail(s)) ELSE s

RECURSIVE RStrip(_)
RStrip(s) ==
  IF s # <<>> /\ s[Len(s)] = " " THEN RStrip(SubSeq(s, 1, Len(s) - 1)) ELSE s

Strip(s) == LStrip(RStrip(s))

\* the decimal value of a string of digits
RECURSIVE DecValue(_)
DecValue(s) ==
  IF s = <<>> THEN 0
  ELSE 10 * DecValue(SubSeq(s, 1, Len(s) - 1)) + DigitVal(s[Len(s)])

\* float(s) succeeds: over the model's characters (no sign, point or exponent
\* survives), a non-empty run of digits with optional surrounding whitespace
FloatParses(s) == Strip(s) # <<>> /\ Range(Strip(s)) \subseteq Digits

FloatValue(s) == DecValue(Strip(s))

-----------------------------------------------------------------------------
(* process_listings_data *)

Fields == {"address", "price", "bedrooms", "bathrooms", "sqft", "property_type"}

\* pd.DataFrame(listings): a column per key that occurs in some listing
HasColumn(listings, f) == \E i \in DOMAIN listings : listings[i][f] # Absent

\* Series.str: refused (AttributeError) for a numeric column, one that
\* holds numbers and no string
StrAccessorOK(listings, f) ==
  \/ \E i \in DOMAIN listings : IsStr(listings[i][f])
  \/ \A i \in DOMAIN listings : ~IsNum(listings[i][f])

\* .str.replace(r'[$,+]', '', regex=True) on one cell: a non-string is NaN
StripChars == {"$", ",", "+"}

StrReplace(c) ==
  IF IsStr(c) THEN Str(SelectSeq(c[2], LAMBDA ch : ch \notin StripChars))
  ELSE NaN

\* .astype(float, errors='ignore') on the whole column: when one cell does
\* not parse the exception is suppressed and the column is returned as it was
AstypeFloatIgnore(col) ==
  IF \A i \in DOMAIN col : IsStr(col[i]) => FloatParses(col[i][2])
  THEN [i \in DOMAIN col |-> IF IsStr(col[i]) THEN Num(FloatValue(col[i][2]))
                             ELSE NaN]
  ELSE col

\* pd.to_numeric(.., errors='coerce') on one cell
ToNumeric(c) ==
  IF IsNum(c) THEN c
  ELSE IF IsStr(c) /\ c[2] # <<>> /\ Range(c[2]) \subseteq Digits
       THEN Num(DecValue(c[2]))
  ELSE NaN

\* re.search(r'([^,]+),', s): the first position from which a non-empty run
\* of non-comma characters is followed by a comma; group 1 is that run
RunEnd(s, i) ==
  CHOOSE j \in i..(Len(s) + 1) :
    /\ j = Len(s) + 1 \/ s[j] = ","
    /\ \A k \in i..(j - 1) : s[k] # ","

MatchAt(s, i) == s[i] # "," /\ RunEnd(s, i) <= Len(s)

ExtractAnchored(s) ==
  IF s # <<>> /\ MatchAt(s, 1) THEN Str(SubSeq(s, 1, RunEnd(s, 1) - 1)) ELSE NaN

Extract(s) ==
  IF \E i \in DOMAIN s : MatchAt(s, i)
  THEN LET i == CHOOSE i \in DOMAIN s :
                  MatchAt(s, i) /\ \A k \in 1..(i - 1) : ~MatchAt(s, k)
       IN  Str(SubSeq(s, i, RunEnd(s, i) - 1))
  ELSE NaN

\* df['address'].str.extract(r'([^,]+),')[0].str.strip() on one cell
NeighborhoodOf(c) ==
  IF IsStr(c)
  THEN LET m == Extract(c[2]) IN IF IsStr(m) THEN Str(Strip(m[2])) ELSE NaN
  ELSE NaN

\* The exception process_listings_data raises, "" when it returns
ProcessError(listings) ==
  IF ~HasColumn(listings, "price") THEN "KeyError"
  ELSE IF ~StrAccessorOK(listings, "price") THEN "AttributeError"
  ELSE IF ~HasColumn(listings, "bedrooms") THEN "KeyError"
  ELSE IF ~HasColumn(listings, "bathrooms") THEN "KeyError"
  ELSE IF ~HasColumn(listings, "sqft") THEN "KeyError"
  ELSE IF ~HasColumn(listings, "address") THEN "KeyError"
  ELSE IF ~StrAccessorOK(listings, "address") THEN "AttributeError"
  ELSE ""

\* The rows of the returned DataFrame (when nothing was raised)
ProcessRows(listings) ==
  LET price_numeric ==
        AstypeFloatIgnore([i \in DOMAIN listings |-> StrReplace(listings[i].price)])
  IN  [i \in DOMAIN listings |->
        [address           |-> listings[i].address,
         price             |-> listings[i].price,
         bedrooms          |-> listings[i].bedrooms,
         bathrooms         |-> listings[i].bathrooms,
         sqft              |-> listings[i].sqft,
         property_type     |-> listings[i].property_type,
         id                |-> i,
         price_numeric     |-> price_numeric[i],
         bedrooms_numeric  |-> ToNumeric(listings[i].bedrooms),
         bathrooms_numeric |-> ToNumeric(listings[i].bathrooms),
         sqft_numeric      |-> ToNumeric(listings[i].sqft),
         neighborhood      |-> NeighborhoodOf(listings[i].address)]]

-----------------------------------------------------------------------------
(* DataFrames: [cols |-> the column names, rows |-> the rows in index order] *)

Derived == {"price_numeric", "bedrooms_numeric", "bathrooms_numeric",
            "sqft_numeric", "neighborhood"}

EmptyFrame == [cols |-> {}, rows |-> <<>>]

\* process_listings_data(listings), when it does not raise
ProcessFrame(listings) ==
  IF listings = <<>> THEN EmptyFrame
  ELSE [cols |-> {f \in Fields : HasColumn(listings, f)} \cup Derived,
        rows |-> ProcessRows(listings)]

\* DataFrame.empty
IsEmpty(frame) == frame.cols = {} \/ frame.rows = <<>>

\* DataFrame.head(n)
Head_(frame, n) ==
  [frame EXCEPT !.rows = SubSeq(frame.rows, 1, IF n < Len(frame.rows) THEN n
                                               ELSE Len(frame.rows))]

\* The numbers of a column, NaN skipped
ColNums(frame, col) ==
  {frame.rows[i][col][2] : i \in {j \in DOMAIN frame.rows : IsNum(frame.rows[j][col])}}

SetMin(S) == CHOOSE x \in S : \A y \in S : x <= y
SetMax(S) == CHOOSE x \in S : \A y \in S : y <= x

-----------------------------------------------------------------------------
(* The filter step of main(), lines 204-216 *)

\* a comparison of a str cell of an object column with an int raises
CompareRaises(frame) ==
  "price_numeric" \in frame.cols
  /\ \E i \in DOMAIN frame.rows : IsStr(frame.rows[i].price_numeric)

\* (df['price_numeric'] >= lo) & (df['price_numeric'] <= hi): NaN compares False
PriceMaskKeepNaN(r, lo, hi) ==
  ~IsNum(r.price_numeric) \/ (lo <= r.price_numeric[2] /\ r.price_numeric[2] <= hi)

PriceMask(r, lo, hi) ==
  IsNum(r.price_numeric) /\ lo <= r.price_numeric[2] /\ r.price_numeric[2] <= hi

PriceFilter(frame, lo, hi) ==
  IF "price_numeric" \in frame.cols
  THEN [frame EXCEPT !.rows = SelectSeq(frame.rows, LAMBDA r : PriceMask(r, lo, hi))]
  ELSE frame

\* if bedrooms: df_filtered[df_filtered['bedrooms_numeric'].isin(bedrooms)]
BedroomFilterStrict(frame, sel) ==
  [frame EXCEPT !.rows =
     SelectSeq(frame.rows, LAMBDA r : IsNum(r.bedrooms_numeric)
                                      /\ r.bedrooms_numeric[2] \in sel)]

BedroomFilter(frame, sel) ==
  IF sel # {}
  THEN [frame EXCEPT !.rows =
          SelectSeq(frame.rows, LAMBDA r : IsNum(r.bedrooms_numeric)
                                           /\ r.bedrooms_numeric[2] \in sel)]
  ELSE frame

\* if property_types: df_filtered[df_filtered['property_type'].isin(property_types)]
TypeFilter(frame, sel) ==
  IF sel # {}
  THEN [frame EXCEPT !.rows =
          SelectSeq(frame.rows, LAMBDA r : r.property_type \in sel)]
  ELSE frame

FilterFrame(frame, lo, hi, beds, types) ==
  TypeFilter(BedroomFilter(PriceFilter(frame, lo, hi), beds), types)

-----------------------------------------------------------------------------
(* create_neighborhood_chart, lines 113-123 *)

MinCount  == 3
MaxGroups == 10

\* the rows of a group
GroupRows(frame, k) ==
  SelectSeq(frame.rows, LAMBDA r : r.neighborhood = Str(k))

RECURSIVE SumPrices(_)
SumPrices(rows) ==
  IF rows = <<>> THEN 0
  ELSE (IF IsNum(Head(rows).price_numeric) THEN Head(rows).price_numeric[2] ELSE 0)
       + SumPrices(Tail(rows))

\* round(total / n) as numpy rounds: to nearest, a half to the even neighbour
RoundHalfEven(total, n) ==
  LET q == total \div n
      r == total % n
  IN  IF 2 * r < n THEN q
      ELSE IF 2 * r > n THEN q + 1
      ELSE IF q % 2 = 0 THEN q ELSE q + 1

\* 'count' of price_numeric in a group: its non-NaN cells
GroupSize(frame, k) == Len(GroupRows(frame, k))

GroupCount(frame, k) ==
  Len(SelectSeq(GroupRows(frame, k), LAMBDA r : IsNum(r.price_numeric)))

\* 'mean' of price_numeric in a group, rounded: NaN when no cell is a number
GroupMean(frame, k) ==
  IF GroupCount(frame, k) = 0 THEN NaN
  ELSE Num(RoundHalfEven(SumPrices(GroupRows(frame, k)), GroupCount(frame, k)))

\* the group keys: the non-null neighborhoods (groupby drops NaN keys)
GroupKeys(frame) ==
  {frame.rows[i].neighborhood[2] :
     i \in {j \in DOMAIN frame.rows : IsStr(frame.rows[j].neighborhood)}}

RECURSIVE SortStrs(_)
SortStrs(S) ==
  IF S = {} THEN <<>>
  ELSE LET m == CHOOSE x \in S : \A y \in S \ {x} : StrLess(x, y)
       IN  <<m>> \o SortStrs(S \ {m})

RECURSIVE FirstSeen(_, _)
FirstSeen(rows, seen) ==
  IF rows = <<>> THEN <<>>
  ELSE LET c == Head(rows).neighborhood
       IN  IF IsStr(c) /\ c[2] \notin seen
           THEN <<c[2]>> \o FirstSeen(Tail(rows), seen \cup {c[2]})
           ELSE FirstSeen(Tail(rows), seen)

GroupOrderFirstSeen(frame) == FirstSeen(frame.rows, {})

\* groupby('neighborhood') sorts the group keys (sort=True is the default)
GroupOrder(frame) == SortStrs(GroupKeys(frame))

\* neighborhood_stats after line 123; NaN (None) when the chart returns early
NeighborhoodStats(frame) ==
  LET all == [i \in DOMAIN GroupOrder(frame) |->
                [neighborhood |-> GroupOrder(frame)[i],
                 avg_price    |-> GroupMean(frame, GroupOrder(frame)[i]),
                 count        |-> GroupCount(frame, GroupOrder(frame)[i])]]
      kept == SelectSeq(all, LAMBDA g : g.count >= MinCount)
  IN  SubSeq(kept, 1, IF Len(kept) < MaxGroups THEN Len(kept) ELSE MaxGroups)

ChartReturnsNone(frame) == IsEmpty(frame) \/ "neighborhood" \notin frame.cols

-----------------------------------------------------------------------------
(* Sort and paginate, lines 275-283 *)

SortKeys == {"price_numeric", "bedrooms_numeric", "address"}

\* a < b for two non-null cells of one column
CellLess(a, b) ==
  IF IsNum(a) /\ IsNum(b) THEN a[2] < b[2] ELSE StrLess(a[2], b[2])

\* The orders sort_values(key, ascending=False) can give the rows S (indices
\* of non-null keys): descending; quicksort, the default kind, is not stable,
\* so rows with equal keys come in any order
RECURSIVE DescOrders(_, _, _)
DescOrders(rows, key, S) ==
  IF S = {} THEN {<<>>}
  ELSE UNION {{<<rows[i]>> \o t : t \in DescOrders(rows, key, S \ {i})} :
              i \in {j \in S : \A k \in S : ~CellLess(rows[j][key], rows[k][key])}}

NonNull(rows, key) == {i \in DOMAIN rows : ~IsMissing(rows[i][key])}

\* rows with a null key go last (na_position='last'), in index order
NullRows(rows, key) == SelectSeq(rows, LAMBDA r : IsMissing(r[key]))

SortValues(frame, key) ==
  {[frame EXCEPT !.rows = t \o NullRows(frame.rows, key)] :
     t \in DescOrders(frame.rows, key, NonNull(frame.rows, key))}

\* df_display: the frames lines 280-283 can produce
DisplayNoFallback(frame, sort_by, show_count) ==
  {Head_(f, show_count) : f \in SortValues(frame, sort_by)}

Display(frame, sort_by, show_count) ==
  IF sort_by \in frame.cols
  THEN {Head_(f, show_count) : f \in SortValues(frame, sort_by)}
  ELSE {Head_(frame, show_count)}

-----------------------------------------------------------------------------
(* The sidebar widgets, lines 160-189 *)

DefaultPriceMax == 10000
DefaultShow     == 20

\* the strings of an object column
ColStrs(frame, col) ==
  {frame.rows[i][col][2] : i \in {j \in DOMAIN frame.rows : IsStr(frame.rows[j][col])}}

StrMin(S) == CHOOSE x \in S : \A y \in S \ {x} : StrLess(x, y)
StrMax(S) == CHOOSE x \in S : \A y \in S \ {x} : StrLess(y, x)

IsObjectColumn(frame, col) == \E i \in DOMAIN frame.rows : IsStr(frame.rows[i][col])

\* What int(df['price_numeric'].min()) / int(df['price_numeric'].max()) raise:
\* on an object column min() compares str with the filled NaN (TypeError), or
\* int() is given a string it cannot parse (ValueError); on a float column
\* with no number, int(NaN) is a ValueError
PriceBoundsError(frame) ==
  IF "price_numeric" \notin frame.cols THEN ""
  ELSE IF IsObjectColumn(frame, "price_numeric")
  THEN IF \E i \in DOMAIN frame.rows : ~IsStr(frame.rows[i].price_numeric)
       THEN "TypeError"
       ELSE IF FloatParses(StrMin(ColStrs(frame, "price_numeric")))
               /\ FloatParses(StrMax(ColStrs(frame, "price_numeric")))
            THEN "" ELSE "ValueError"
  ELSE IF ColNums(frame, "price_numeric") = {} THEN "ValueError" ELSE ""

PriceMin(frame) ==
  IF "price_numeric" \notin frame.cols THEN 0
  ELSE IF IsObjectColumn(frame, "price_numeric")
  THEN FloatValue(StrMin(ColStrs(frame, "price_numeric")))
  ELSE SetMin(ColNums(frame, "price_numeric"))

PriceMax(frame) ==
  IF "price_numeric" \notin frame.cols THEN DefaultPriceMax
  ELSE IF IsObjectColumn(frame, "price_numeric")
  THEN FloatValue(StrMax(ColStrs(frame, "price_numeric")))
  ELSE SetMax(ColNums(frame, "price_numeric"))

\* st.slider(min_value, max_value, ...) is given a range that is not one when
\* min_value >= max_value: Streamlit raises StreamlitAPIException or clamps
\* to the default value, by version
SliderMayRaise(min_value, max_value) == min_value >= max_value

\* the values a range slider returns
RangeValues(min_value, max_value) ==
  LET lo == IF min_value <= max_value THEN min_value ELSE max_value
      hi == IF min_value <= max_value THEN max_value ELSE min_value
  IN  {p \in (lo..hi) \X (lo..hi) : p[1] <= p[2]}

\* the values the "Show listings" slider returns: st.slider(1, n, min(20, n))
ShowValues(n) ==
  IF SliderMayRaise(1, n) THEN {IF DefaultShow < n THEN DefaultShow ELSE n}
  ELSE 1..n

\* options of the bedroom multiselect: the numbers of bedrooms_numeric
BedroomOptions(frame) == ColNums(frame, "bedrooms_numeric")

\* options of the property-type multiselect: df['property_type'].dropna().unique()
TypeOptions(frame) ==
  {frame.rows[i].property_type :
     i \in {j \in DOMAIN frame.rows : ~IsMissing(frame.rows[j].property_type)}}

-----------------------------------------------------------------------------
(* The documents fetch_market_data returns *)

MaxListings == 3

MkRaw(address, price, bedrooms, bathrooms, sqft, property_type) ==
  [address |-> address, price |-> price, bedrooms |-> bedrooms,
   bathrooms |-> bathrooms, sqft |-> sqft, property_type |-> property_type]

\* The raw listings a document is made of
RawListings ==
  { MkRaw(Str(<<"a", ",", "c">>), Str(<<"$", "1">>), Str(<<"1">>),
          Str(<<"1">>), Str(<<"9">>), Str(<<"a">>)),
    MkRaw(Str(<<"b", " ", ",", "c">>), Str(<<"$", ",", "3", "+">>), Str(<<"2">>),
          Str(<<"2">>), None, Str(<<"b">>)),
    MkRaw(Str(<<",", "a", ",", "c">>), Str(<<"$", "1">>), None,
          Str(<<"x">>), Str(<<"x">>), Str(<<"a">>)),
    MkRaw(Str(<<"d">>), None, Str(<<"x">>),
          None, Absent, None),
    MkRaw(None, Str(<<"2">>), Str(<<"1">>),
          Absent, Str(<<>>), Str(<<"b">>)),
    MkRaw(Str(<<" ", ",", "c">>), Str(<<"2", "x">>), Str(<<"2">>),
          Num(1), Num(9), Str(<<"a">>)),
    MkRaw(Str(<<",", "a">>), Num(2), Num(1),
          Str(<<"1">>), Str(<<"9">>), Absent),
    MkRaw(Str(<<>>), Absent, Absent,
          Str(<<"1">>), Str(<<"9">>), Str(<<"b">>)) }

\* sequences of distinct raw listings, at most n long
RECURSIVE Datasets(_)
Datasets(n) ==
  IF n = 0 THEN {<<>>}
  ELSE LET shorter == Datasets(n - 1)
       IN  shorter \cup
           UNION {{Append(d, l) : l \in RawListings \ Range(d)} :
                  d \in {e \in shorter : Len(e) = n - 1}}

\* fetch_market_data's return value: None on any exception of the request,
\* else the parsed JSON document
NoData == [ok |-> FALSE, has_listings |-> FALSE, listings |-> <<>>, analysis |-> FALSE]

Doc(has_listings, listings, analysis) ==
  [ok |-> TRUE, has_listings |-> has_listings, listings |-> listings,
   analysis |-> analysis]

Documents ==
  {Doc(FALSE, <<>>, a) : a \in BOOLEAN}
  \cup {Doc(TRUE, <<>>, a) : a \in BOOLEAN}
  \cup {Doc(TRUE, d, Len(d) = 1) : d \in Datasets(MaxListings) \ {<<>>}}

\* What requests.get / raise_for_status / response.json() do: raise, or give
\* the parsed document
RequestOutcomes ==
  {[exc |-> e, doc |-> NoData] :
     e \in {"ConnectionError", "Timeout", "HTTPError", "JSONDecodeError"}}
  \cup {[exc |-> "", doc |-> d] : d \in Documents}

\* lines 52-58: any exception of the request is caught and None returned
\* [raised |-> the exception that escapes, value |-> the return value]
FetchMarketData(outcome) ==
  IF outcome.exc # "" THEN [raised |-> "", value |-> NoData]
  ELSE [raised |-> "", value |-> outcome.doc]

\* bool(data), and bool(data.get('listings'))
Truthy(d) == d.ok /\ (d.has_listings \/ d.analysis)

ListingsTruthy(d) == d.has_listings /\ d.listings # <<>>

-----------------------------------------------------------------------------
(* One script run of main().  A local variable is <<>> while unassigned and *)
(* <<v>> once assigned v.                                                   *)

VARIABLES
  cache,               \* st.cache_data: <<>> or <<the cached return value>>
  pc,                  \* where the run is
  err,                 \* the exception that ended the run, "" if none
  data,                \* fetch_market_data()'s result
  df,                  \* the processed frame
  price_range, bedrooms, property_types,          \* the sidebar's filters
  df_filtered,         \* the filtered view
  metrics,             \* the four st.metric values
  neighborhood_stats,  \* the rows create_neighborhood_chart plots
  show_count, sort_by, df_display,                \* the listings table
  csv                  \* the exported rows

vars == <<cache, pc, err, data, df, price_range, bedrooms, property_types,
          df_filtered, metrics, neighborhood_stats, show_count, sort_by,
          df_display, csv>>

locals == <<df, price_range, bedrooms, property_types, df_filtered, metrics,
            neighborhood_stats, show_count, sort_by, df_display, csv>>

Unassigned == <<>>

LocalsUnassigned ==
  /\ df = Unassigned /\ price_range = Unassigned /\ bedrooms = Unassigned
  /\ property_types = Unassigned /\ df_filtered = Unassigned
  /\ metrics = Unassigned /\ neighborhood_stats = Unassigned
  /\ show_count = Unassigned /\ sort_by = Unassigned
  /\ df_display = Unassigned /\ csv = Unassigned

Init ==
  /\ cache = <<>>
  /\ pc = "start"
  /\ err = ""
  /\ data = Unassigned
  /\ LocalsUnassigned

\* an uncaught exception ends the run
Raise(e) == pc' = "raised" /\ err' = e

\* lines 149-151: the refresh button clears the cache and reruns the script
Refresh ==
  /\ pc = "start"
  /\ cache' = <<>>
  /\ UNCHANGED <<pc, err, data, locals>>

\* lines 49-58 and 159: the cached value, or (no entry, or one older than
\* the ttl) the request's outcome, which is cached, None included
Fetch ==
  /\ pc = "start"
  /\ \/ cache # <<>> /\ data' = cache /\ pc' = "sidebar" /\ UNCHANGED <<cache, err>>
     \/ \E o \in RequestOutcomes :
          IF FetchMarketData(o).raised # ""
          THEN Raise(FetchMarketData(o).raised) /\ UNCHANGED <<cache, data>>
          ELSE /\ data' = <<FetchMarketData(o).value>>
               /\ cache' = <<FetchMarketData(o).value>>
               /\ pc' = "sidebar"
               /\ UNCHANGED err
  /\ UNCHANGED locals

\* lines 160-189
SidebarDefaults ==
  /\ pc = "sidebar"
  /\ ~(Truthy(data[1]) /\ ListingsTruthy(data[1]))
  /\ price_range' = <<<<0, DefaultPriceMax>>>>
  /\ bedrooms' = <<{}>>
  /\ property_types' = <<{}>>
  /\ pc' = "guard"
  /\ UNCHANGED <<cache, err, data, df, df_filtered, metrics, neighborhood_stats,
                 show_count, sort_by, df_display, csv>>

\* the exception lines 161-185 raise before any widget returns, "" if none
SidebarError(listings) ==
  IF ProcessError(listings) # "" THEN ProcessError(listings)
  ELSE IF IsEmpty(ProcessFrame(listings)) THEN ""
  ELSE IF PriceBoundsError(ProcessFrame(listings)) # ""
       THEN PriceBoundsError(ProcessFrame(listings))
  ELSE ""

SidebarRaises ==
  /\ pc = "sidebar"
  /\ Truthy(data[1]) /\ ListingsTruthy(data[1])
  /\ LET listings == data[1].listings
         frame    == ProcessFrame(listings)
     IN  \/ /\ SidebarError(listings) # ""
            /\ Raise(SidebarError(listings))
            /\ df' = IF ProcessError(listings) = "" THEN <<frame>> ELSE df
            /\ UNCHANGED <<price_range, bedrooms, property_types>>
         \/ /\ SidebarError(listings) = "" /\ ~IsEmpty(frame)
            /\ SliderMayRaise(PriceMin(frame), PriceMax(frame))
            /\ Raise("StreamlitAPIException")
            /\ df' = <<frame>>
            /\ UNCHANGED <<price_range, bedrooms, property_types>>
         \/ /\ SidebarError(listings) = "" /\ ~IsEmpty(frame)
            /\ "property_type" \notin frame.cols
            /\ Raise("KeyError")
            /\ df' = <<frame>>
            /\ \E pr \in RangeValues(PriceMin(frame), PriceMax(frame)) :
                 price_range' = <<pr>>
            /\ \E b \in SUBSET BedroomOptions(frame) : bedrooms' = <<b>>
            /\ UNCHANGED property_types
  /\ UNCHANGED <<cache, data, df_filtered, metrics, neighborhood_stats,
                 show_count, sort_by, df_display, csv>>

SidebarWidgets ==
  /\ pc = "sidebar"
  /\ Truthy(data[1]) /\ ListingsTruthy(data[1])
  /\ LET listings == data[1].listings
         frame    == ProcessFrame(listings)
     IN  /\ SidebarError(listings) = ""
         /\ df' = <<frame>>
         /\ IF IsEmpty(frame)
            THEN UNCHANGED <<price_range, bedrooms, property_types>>
            ELSE /\ "property_type" \in frame.cols
                 /\ \E pr \in RangeValues(PriceMin(frame), PriceMax(frame)) :
                      price_range' = <<pr>>
                 /\ \E b \in SUBSET BedroomOptions(frame) : bedrooms' = <<b>>
                 /\ \E t \in SUBSET TypeOptions(frame) : property_types' = <<t>>
  /\ pc' = "guard"
  /\ UNCHANGED <<cache, err, data, df_filtered, metrics, neighborhood_stats,
                 show_count, sort_by, df_display, csv>>

Sidebar == SidebarDefaults \/ SidebarRaises \/ SidebarWidgets


\* lines 192-194: st.stop() ends the run when the fetch gave None
DataIsNoneNever(d) == FALSE

DataIsNone(d) == ~d.ok

CheckData ==
  /\ pc = "guard"
  /\ pc' = IF DataIsNone(data[1]) THEN "stopped" ELSE "overview"
  /\ UNCHANGED <<cache, err, data, locals>>

\* The exception lines 204-216 raise on a frame, "" if none: a filter
\* variable read while unassigned is a NameError
FilterError(frame, pr, beds, types) ==
  IF "price_numeric" \in frame.cols /\ pr = Unassigned THEN "NameError"
  ELSE IF CompareRaises(frame) THEN "TypeError"
  ELSE IF beds = Unassigned THEN "NameError"
  ELSE IF beds[1] # {} /\ "bedrooms_numeric" \notin frame.cols THEN "KeyError"
  ELSE IF types = Unassigned THEN "NameError"
  ELSE IF types[1] # {} /\ "property_type" \notin frame.cols THEN "KeyError"
  ELSE ""

\* lines 199-216, and the two warnings of lines 306-309
ApplyFilters ==
  /\ pc = "overview"
  /\ IF DataIsNone(data[1])
     THEN Raise("AttributeError") /\ UNCHANGED <<df, df_filtered>>
     ELSE IF ~ListingsTruthy(data[1])
     THEN pc' = "analysis" /\ UNCHANGED <<err, df, df_filtered>>
     ELSE IF ProcessError(data[1].listings) # ""
     THEN Raise(ProcessError(data[1].listings)) /\ UNCHANGED <<df, df_filtered>>
     ELSE LET frame == ProcessFrame(data[1].listings)
          IN  /\ df' = <<frame>>
              /\ IF IsEmpty(frame)
                 THEN pc' = "analysis" /\ UNCHANGED <<err, df_filtered>>
                 ELSE IF FilterError(frame, price_range, bedrooms, property_types) # ""
                 THEN /\ Raise(FilterError(frame, price_range, bedrooms, property_types))
                      /\ UNCHANGED df_filtered
                 ELSE /\ df_filtered' =
                           <<FilterFrame(frame, price_range[1][1], price_range[1][2],
                                         bedrooms[1], property_types[1])>>
                      /\ pc' = "metrics"
                      /\ UNCHANGED err
  /\ UNCHANGED <<cache, data, price_range, bedrooms, property_types, metrics,
                 neighborhood_stats, show_count, sort_by, df_display, csv>>

\* Series.mean() as [total, n]: NaN when n = 0
ColMean(frame, col) ==
  LET cells == SelectSeq([i \in DOMAIN frame.rows |-> frame.rows[i][col]], IsNum)
      Total[i \in 0..Len(cells)] == IF i = 0 THEN 0 ELSE Total[i - 1] + cells[i][2]
  IN  [total |-> Total[Len(cells)], n |-> Len(cells)]

ColMinCell(frame, col) ==
  IF ColNums(frame, col) = {} THEN NaN ELSE Num(SetMin(ColNums(frame, col)))

ColMaxCell(frame, col) ==
  IF ColNums(frame, col) = {} THEN NaN ELSE Num(SetMax(ColNums(frame, col)))

\* lines 219-247: what the four st.metric calls are given
MetricsOf(view, base) ==
  [total        |-> Len(view.rows),
   delta        |-> IF Len(view.rows) # Len(base.rows)
                    THEN Num(Len(view.rows) - Len(base.rows)) ELSE None,
   avg_price    |-> ColMean(view, "price_numeric"),
   avg_price_na |-> ~(ColMean(view, "price_numeric").n > 0
                      /\ ColMean(view, "price_numeric").total > 0),
   avg_bedrooms |-> ColMean(view, "bedrooms_numeric"),
   avg_bedrooms_na |-> ~(ColMean(view, "bedrooms_numeric").n > 0
                         /\ ColMean(view, "bedrooms_numeric").total > 0),
   min_price    |-> ColMinCell(view, "price_numeric"),
   max_price    |-> ColMaxCell(view, "price_numeric")]

Metrics ==
  /\ pc = "metrics"
  /\ metrics' = <<MetricsOf(df_filtered[1], df[1])>>
  /\ pc' = "charts"
  /\ UNCHANGED <<cache, err, data, df, price_range, bedrooms, property_types,
                 df_filtered, neighborhood_stats, show_count, sort_by,
                 df_display, csv>>

\* lines 250-267: the three charts; the neighbourhood one is the aggregation
Charts ==
  /\ pc = "charts"
  /\ neighborhood_stats' =
       IF ChartReturnsNone(df_filtered[1]) THEN <<>>
       ELSE <<NeighborhoodStats(df_filtered[1])>>
  /\ pc' = "listings"
  /\ UNCHANGED <<cache, err, data, df, price_range, bedrooms, property_types,
                 df_filtered, metrics, show_count, sort_by, df_display, csv>>

\* lines 272-295: the "Show listings" slider, the sort key, the table
ShowSliderRaises ==
  /\ pc = "listings"
  /\ SliderMayRaise(1, Len(df_filtered[1].rows))
  /\ Raise("StreamlitAPIException")
  /\ UNCHANGED <<cache, data, locals>>

SortAndShow ==
  /\ pc = "listings"
  /\ \E n \in ShowValues(Len(df_filtered[1].rows)), key \in SortKeys :
       /\ show_count' = <<n>>
       /\ sort_by' = <<key>>
       /\ \E d \in Display(df_filtered[1], key, n) : df_display' = <<d>>
  /\ pc' = "export"
  /\ UNCHANGED <<cache, err, data, df, price_range, bedrooms, property_types,
                 df_filtered, metrics, neighborhood_stats, csv>>

SortPaginate == ShowSliderRaises \/ SortAndShow

\* line 299: df_filtered.to_csv(index=False), a header and a record per row
ToCsv(frame) ==
  [header  |-> frame.cols,
   records |-> [i \in DOMAIN frame.rows |-> [c \in frame.cols |-> frame.rows[i][c]]]]

Export ==
  /\ pc = "export"
  /\ csv' = <<ToCsv(df_filtered[1])>>
  /\ pc' = "analysis"
  /\ UNCHANGED <<cache, err, data, df, price_range, bedrooms, property_types,
                 df_filtered, metrics, neighborhood_stats, show_count, sort_by,
                 df_display>>

\* lines 311-322: the analysis text, if any, and the footer
Footer ==
  /\ pc = "analysis"
  /\ pc' = "done"
  /\ UNCHANGED <<cache, err, data, locals>>

\* Streamlit runs the script again on the next interaction; the cache stays
Rerun ==
  /\ pc \in {"done", "stopped", "raised"}
  /\ pc' = "start"
  /\ err' = ""
  /\ data' = Unassigned
  /\ df' = Unassigned /\ price_range' = Unassigned /\ bedrooms' = Unassigned
  /\ property_types' = Unassigned /\ df_filtered' = Unassigned
  /\ metrics' = Unassigned /\ neighborhood_stats' = Unassigned
  /\ show_count' = Unassigned /\ sort_by' = Unassigned
  /\ df_display' = Unassigned /\ csv' = Unassigned
  /\ UNCHANGED cache

Next ==
  \/ Refresh \/ Fetch \/ Sidebar \/ CheckData \/ ApplyFilters \/ Metrics
  \/ Charts \/ SortPaginate \/ Export \/ Footer \/ Rerun

Spec == Init /\ [][Next]_vars


-----------------------------------------------------------------------------
(* The components called on their own: process_listings_data on raw        *)
(* listings, the filter step and the sort step on a frame and widget       *)
(* values, create_neighborhood_chart on a view.                            *)

MaxAddrLen      == 3
MaxViewLen      == 4
MaxChartGroups  == 12

AddrChars == {",", " ", "a"}

RECURSIVE Strings(_)
Strings(n) ==
  IF n = 0 THEN {<<>>}
  ELSE Strings(n - 1)
       \cup {Append(t, c) : t \in {u \in Strings(n - 1) : Len(u) = n - 1},
                            c \in AddrChars}

AddrListings ==
  {MkRaw(a, Str(<<"$", "1">>), Str(<<"1">>), Str(<<"1">>), Str(<<"9">>), Str(<<"a">>)) :
     a \in {Str(t) : t \in Strings(MaxAddrLen)} \cup {None, Absent}}

\* raw listings for process_listings_data: one or two, any address
ProcessInputs ==
  {<<l>> : l \in AddrListings} \cup {<<l, m>> : l \in AddrListings, m \in AddrListings}

\* a listing of a view: an address "k,c" or None, a price "$p" or None
ViewListing(k, p) ==
  MkRaw(IF k = "" THEN None ELSE Str(<<k, ",", "c">>),
        IF p = "" THEN None ELSE Str(<<"$", p>>),
        Str(<<"1">>), Str(<<"1">>), Str(<<"9">>), Str(<<"a">>))

ViewListings == {ViewListing(k, p) : k \in {"", "a", "b"}, p \in {"", "1", "2"}}

RECURSIVE SeqsUpTo(_, _)
SeqsUpTo(S, n) ==
  IF n = 0 THEN {<<>>}
  ELSE SeqsUpTo(S, n - 1)
       \cup {Append(t, x) : t \in {u \in SeqsUpTo(S, n - 1) : Len(u) = n - 1}, x \in S}

\* neighbourhood names, not in sorted order
GroupNames == <<"d", "c", "b", "a", "9", "8", "7", "6", "5", "4", "3", "2", "1", "0">>

\* k neighbourhoods of m listings each, in the order of GroupNames; the
\* last listing of every second neighbourhood has no price
GroupedListings(k, m) ==
  [i \in 1..(k * m) |->
     LET g == ((i - 1) \div m) + 1
     IN  ViewListing(GroupNames[g],
                     IF i % m = 0 /\ g % 2 = 0 THEN "" ELSE IF i % 2 = 0 THEN "2" ELSE "1")]

ChartInputs ==
  {ProcessFrame(l) : l \in SeqsUpTo(ViewListings, MaxViewLen) \ {<<>>}}
  \cup {ProcessFrame(GroupedListings(k, m)) :
          k \in 1..MaxChartGroups, m \in (MinCount - 1)..(MinCount + 1)}
  \cup {EmptyFrame}

\* frames for the filter and the sort step: processed listings, with any of
\* the columns the two steps test for taken away
StepListings ==
  {l \in Datasets(2) : l # <<>> /\ ProcessError(l) = ""
                       /\ ~IsObjectColumn(ProcessFrame(l), "price_numeric")}

StepInputs ==
  {[ProcessFrame(l) EXCEPT !.cols = @ \ gone] :
     l \in StepListings, gone \in SUBSET {"price_numeric", "address"}}

InitFn ==
  /\ cache = <<>>
  /\ err = ""
  /\ metrics = Unassigned /\ neighborhood_stats = Unassigned
  /\ show_count = Unassigned /\ sort_by = Unassigned
  /\ df_display = Unassigned /\ csv = Unassigned
  /\ \/ /\ pc = "call_process"
        /\ \E l \in ProcessInputs : data = <<Doc(TRUE, l, FALSE)>>
        /\ df = Unassigned
        /\ df_filtered = Unassigned
        /\ price_range = Unassigned /\ bedrooms = Unassigned
        /\ property_types = Unassigned
     \/ /\ pc = "call_chart"
        /\ data = Unassigned
        /\ df = Unassigned
        /\ \E v \in ChartInputs : df_filtered = <<v>>
        /\ price_range = Unassigned /\ bedrooms = Unassigned
        /\ property_types = Unassigned
     \/ /\ pc = "call_filter"
        /\ data = Unassigned
        /\ \E f \in StepInputs :
             /\ df = <<f>>
             /\ \E pr \in RangeValues(1, 3) : price_range = <<pr>>
             /\ \E b \in SUBSET BedroomOptions(f) : bedrooms = <<b>>
             /\ property_types = <<{}>>
        /\ df_filtered = Unassigned
     \/ /\ pc = "call_sort"
        /\ data = Unassigned
        /\ df = Unassigned
        /\ \E f \in StepInputs : df_filtered = <<f>>
        /\ price_range = Unassigned /\ bedrooms = Unassigned
        /\ property_types = Unassigned

\* process_listings_data(listings), lines 60-76
CallProcess ==
  /\ pc = "call_process"
  /\ IF ProcessError(data[1].listings) # ""
     THEN Raise(ProcessError(data[1].listings)) /\ UNCHANGED df
     ELSE /\ pc' = "processed"
          /\ df' = <<ProcessFrame(data[1].listings)>>
          /\ UNCHANGED err
  /\ UNCHANGED <<cache, data, price_range, bedrooms, property_types, df_filtered,
                 metrics, neighborhood_stats, show_count, sort_by, df_display, csv>>

\* create_neighborhood_chart(df), lines 113-123
CallChart ==
  /\ pc = "call_chart"
  /\ neighborhood_stats' =
       IF ChartReturnsNone(df_filtered[1]) THEN <<>>
       ELSE <<NeighborhoodStats(df_filtered[1])>>
  /\ pc' = "charted"
  /\ UNCHANGED <<cache, err, data, df, price_range, bedrooms, property_types,
                 df_filtered, metrics, show_count, sort_by, df_display, csv>>

\* the filter step, lines 204-216
CallFilter ==
  /\ pc = "call_filter"
  /\ IF FilterError(df[1], price_range, bedrooms, property_types) # ""
     THEN /\ Raise(FilterError(df[1], price_range, bedrooms, property_types))
          /\ UNCHANGED df_filtered
     ELSE /\ df_filtered' = <<FilterFrame(df[1], price_range[1][1], price_range[1][2],
                                          bedrooms[1], property_types[1])>>
          /\ pc' = "filtered"
          /\ UNCHANGED err
  /\ UNCHANGED <<cache, data, df, price_range, bedrooms, property_types, metrics,
                 neighborhood_stats, show_count, sort_by, df_display, csv>>

\* the sort step, lines 280-283
CallSort ==
  /\ pc = "call_sort"
  /\ \E n \in 1..Len(df_filtered[1].rows), key \in SortKeys :
       /\ show_count' = <<n>>
       /\ sort_by' = <<key>>
       /\ \E d \in Display(df_filtered[1], key, n) : df_display' = <<d>>
  /\ pc' = "sorted"
  /\ UNCHANGED <<cache, err, data, df, price_range, bedrooms, property_types,
                 df_filtered, metrics, neighborhood_stats, csv>>

NextFn == CallProcess \/ CallChart \/ CallFilter \/ CallSort

FnSpec == InitFn /\ [][NextFn]_vars


-----------------------------------------------------------------------------
(* Properties *)

Min(a, b) == IF a < b THEN a ELSE b

\* the listing r of df is in the filtered view
InView(r) == \E j \in DOMAIN df_filtered[1].rows : df_filtered[1].rows[j] = r

KnownPriceInRange(r) ==
  /\ IsNum(r.price_numeric)
  /\ price_range[1][1] <= r.price_numeric[2]
  /\ r.price_numeric[2] <= price_range[1][2]

BedroomSelected(r) ==
  IsNum(r.bedrooms_numeric) /\ r.bedrooms_numeric[2] \in bedrooms[1]

TypeSelected(r) == r.property_type \in property_types[1]

\* r passes the bedroom and the property-type filter as main() applies them
PassesSelections(r) ==
  /\ bedrooms[1] = {} \/ BedroomSelected(r)
  /\ property_types[1] = {} \/ TypeSelected(r)

\* the filter step of a run of main() has produced df_filtered
FilterDone == pc \in {"metrics", "charts", "listings", "export"}

\* C1 as stated: a listing with unknown price is never removed by the price
\* filter; of the listings that pass the bedroom and property-type filters,
\* the view holds those with unknown price or a price within the range
C1_NullPriceKept ==
  FilterDone =>
    \A i \in DOMAIN df[1].rows :
      LET r == df[1].rows[i]
      IN  PassesSelections(r) =>
            (InView(r) <=> (~IsNum(r.price_numeric) \/ KnownPriceInRange(r)))

\* C1 amended: the price filter keeps a listing only if its price is known
\* and within [priceMin, priceMax]; of the listings that pass the bedroom
\* and property-type filters, the view holds exactly those, so a listing
\* with unknown price is always removed
C1_KnownPriceInRangeOnly ==
  FilterDone =>
    \A i \in DOMAIN df[1].rows :
      LET r == df[1].rows[i]
      IN  PassesSelections(r) => (InView(r) <=> KnownPriceInRange(r))

C1_Witness ==
  /\ FilterDone
  /\ \E i \in DOMAIN df[1].rows :
       ~IsNum(df[1].rows[i].price_numeric) /\ PassesSelections(df[1].rows[i])
       /\ ~InView(df[1].rows[i])
  /\ df_filtered[1].rows # <<>>

\* C2 as stated: with an empty bedroom selection or an empty property-type
\* selection the filtered view of a non-empty dataset is empty
C2_EmptySelectionNothing ==
  (FilterDone /\ (bedrooms[1] = {} \/ property_types[1] = {}))
    => df_filtered[1].rows = <<>>

\* C2 amended: an empty bedroom selection (or property-type selection) turns
\* that filter off: every listing that passes the price filter and the other
\* selection is in the view
C2_EmptySelectionAll ==
  FilterDone =>
    \A i \in DOMAIN df[1].rows :
      LET r == df[1].rows[i]
      IN  /\ (bedrooms[1] = {} /\ KnownPriceInRange(r)
              /\ (property_types[1] = {} \/ TypeSelected(r))) => InView(r)
          /\ (property_types[1] = {} /\ KnownPriceInRange(r)
              /\ (bedrooms[1] = {} \/ BedroomSelected(r))) => InView(r)

C2_Witness ==
  /\ FilterDone
  /\ bedrooms[1] = {}
  /\ BedroomOptions(df[1]) # {}
  /\ \E i \in DOMAIN df[1].rows :
       InView(df[1].rows[i]) /\ ~IsNum(df[1].rows[i].bedrooms_numeric)

\* the view and the rows create_neighborhood_chart made of it
ChartDone == pc = "charted" /\ neighborhood_stats # Unassigned

StatsRows == neighborhood_stats[1]

ViewRows == df_filtered[1].rows

Neighborhoods == {ViewRows[i].neighborhood : i \in DOMAIN ViewRows} \ {NaN}

\* the listings of the view in neighbourhood c, and those with a known price
ListingsIn(c) == {i \in DOMAIN ViewRows : ViewRows[i].neighborhood = c}

PricedIn(c) == {i \in ListingsIn(c) : IsNum(ViewRows[i].price_numeric)}

Shown(c) == \E j \in DOMAIN StatsRows : Str(StatsRows[j].neighborhood) = c

Qualifying == {c \in Neighborhoods : Cardinality(PricedIn(c)) >= MinCount}

FirstAt(c) == SetMin(ListingsIn(c))

\* C4 as stated: the output is the first 10 qualifying groups (all when 10
\* or fewer) in the order in which the neighbourhoods first appear in the view
C4_FirstSeenOrder ==
  ChartDone =>
    /\ Len(StatsRows) = Min(MaxGroups, Cardinality(Qualifying))
    /\ \A j \in DOMAIN StatsRows : Str(StatsRows[j].neighborhood) \in Qualifying
    /\ \A j, k \in DOMAIN StatsRows :
         j < k => FirstAt(Str(StatsRows[j].neighborhood))
                    < FirstAt(Str(StatsRows[k].neighborhood))
    /\ \A c \in Qualifying :
         ~Shown(c) => \A j \in DOMAIN StatsRows :
                        FirstAt(Str(StatsRows[j].neighborhood)) < FirstAt(c)

\* C4 amended: the output is the first 10 qualifying groups (all when 10 or
\* fewer) in ascending order of the neighbourhood name, whatever the order
\* in which the neighbourhoods appear in the view; its length never exceeds 10
C4_NameOrder ==
  ChartDone =>
    /\ Len(StatsRows) = Min(MaxGroups, Cardinality(Qualifying))
    /\ Len(StatsRows) <= MaxGroups
    /\ \A j \in DOMAIN StatsRows : Str(StatsRows[j].neighborhood) \in Qualifying
    /\ \A j, k \in DOMAIN StatsRows :
         j < k => StrLess(StatsRows[j].neighborhood, StatsRows[k].neighborhood)
    /\ \A c \in Qualifying :
         ~Shown(c) => \A j \in DOMAIN StatsRows :
                        StrLess(StatsRows[j].neighborhood, c[2])

C4_Witness ==
  /\ ChartDone
  /\ Cardinality(Qualifying) > MaxGroups
  /\ Len(StatsRows) = MaxGroups
  /\ FirstAt(Str(StatsRows[1].neighborhood)) > FirstAt(Str(StatsRows[2].neighborhood))

\* the one stable order: among equal keys the earlier row first
RECURSIVE StableDesc(_, _, _)
StableDesc(rows, key, S) ==
  IF S = {} THEN <<>>
  ELSE LET top == {j \in S : \A k \in S : ~CellLess(rows[j][key], rows[k][key])}
           i   == SetMin(top)
       IN  <<rows[i]>> \o StableDesc(rows, key, S \ {i})


\* the table of a run of main() has been computed
TableDone == pc = "export"

C6_EmptyViewNoError ==
  (df_filtered # Unassigned /\ df_filtered[1].rows = <<>> /\ df[1].rows # <<>>)
    => pc # "raised"

\* the raw value is a number, or a string that reads as one
RawNumeric(c) == IsNum(c) \/ (IsStr(c) /\ c[2] # <<>> /\ Range(c[2]) \subseteq Digits)

RawPriceNumeric(c) ==
  \/ IsNum(c)
  \/ IsStr(c) /\ LET t == SelectSeq(c[2], LAMBDA ch : ch \notin StripChars)
                 IN  t # <<>> /\ Range(t) \subseteq Digits

\* process_listings_data raised in this run
ProcessRaised == pc = "raised" /\ df = Unassigned

\* C7 as stated: process_listings_data never raises, and each numeric output
\* of each listing is a number when the raw input is numeric and null when
\* it is absent or not numeric, whatever the other listings hold
C7_CoercionTotal ==
  /\ ~ProcessRaised
  /\ df # Unassigned =>
       \A i \in DOMAIN df[1].rows :
         LET r == df[1].rows[i]
         IN  /\ IF RawPriceNumeric(r.price) THEN IsNum(r.price_numeric)
                ELSE r.price_numeric = NaN
             /\ IF RawNumeric(r.bedrooms) THEN IsNum(r.bedrooms_numeric)
                ELSE r.bedrooms_numeric = NaN
             /\ IF RawNumeric(r.bathrooms) THEN IsNum(r.bathrooms_numeric)
                ELSE r.bathrooms_numeric = NaN
             /\ IF RawNumeric(r.sqft) THEN IsNum(r.sqft_numeric)
                ELSE r.sqft_numeric = NaN

C9_FetchFailureStops ==
  /\ err \notin {"NameError", "ConnectionError", "Timeout", "HTTPError",
                 "JSONDecodeError"}
  /\ (data # Unassigned /\ ~data[1].ok) =>
       /\ pc \in {"sidebar", "guard", "stopped"}
       /\ err = ""
       /\ df_filtered = Unassigned /\ metrics = Unassigned
       /\ neighborhood_stats = Unassigned /\ df_display = Unassigned
       /\ csv = Unassigned
  /\ (data # Unassigned /\ ~data[1].ok /\ pc \in {"guard", "stopped"}) =>
       /\ price_range # Unassigned /\ bedrooms # Unassigned
       /\ property_types # Unassigned
  /\ (FilterDone \/ df_filtered # Unassigned) =>
       /\ price_range # Unassigned /\ bedrooms # Unassigned
       /\ property_types # Unassigned

C9_Witness ==
  /\ pc = "stopped"
  /\ ~data[1].ok
  /\ price_range = <<<<0, DefaultPriceMax>>>>
  /\ df_filtered = Unassigned

\* the part of s after its leading commas
RECURSIVE DropCommas(_)
DropCommas(s) == IF s # <<>> /\ Head(s) = "," THEN DropCommas(Tail(s)) ELSE s

\* the part of s before its first comma (s holds one)
BeforeComma(s) ==
  SubSeq(s, 1, (CHOOSE i \in DOMAIN s :
                  s[i] = "," /\ \A k \in 1..(i - 1) : s[k] # ",") - 1)

\* process_listings_data has returned df
Processed == pc = "processed"

\* C10 as stated: the neighbourhood is the trimmed part of the address
\* before its first comma, null for a null or empty address or one with no
\* comma; an address that starts with a comma gives the empty string
C10_BeforeFirstComma ==
  Processed =>
    \A i \in DOMAIN df[1].rows :
      LET r == df[1].rows[i]
      IN  r.neighborhood =
            IF IsStr(r.address) /\ "," \in Range(r.address[2])
            THEN Str(Strip(BeforeComma(r.address[2])))
            ELSE NaN

\* C10 amended: leading commas are skipped: the neighbourhood is the trimmed
\* part of the address, after its leading commas, before the next comma, and
\* null when the address is null or holds no comma after its leading commas;
\* an address that starts with a comma gives a later segment or null
C10_AfterLeadingCommas ==
  Processed =>
    \A i \in DOMAIN df[1].rows :
      LET r == df[1].rows[i]
      IN  r.neighborhood =
            IF IsStr(r.address) /\ "," \in Range(DropCommas(r.address[2]))
            THEN Str(Strip(BeforeComma(DropCommas(r.address[2]))))
            ELSE NaN

C10_Witness ==
  /\ Processed
  /\ \E i \in DOMAIN df[1].rows :
       /\ IsStr(df[1].rows[i].address)
       /\ df[1].rows[i].address[2] # <<>>
       /\ Head(df[1].rows[i].address[2]) = ","
       /\ df[1].rows[i].neighborhood = Str(<<"a">>)

=============================================================================
